---- MODULE Spec2Model ----
(***************************************************************************)
(* A model of ExtendedConsole (src/src/ExtendedConsole.mjs): one engine    *)
(* instance, the ambient console object it binds itself to, and the sink   *)
(* (the console channels captured in _originalConsole at construction);    *)
(* for the claims about several engines, a second instance constructed on  *)
(* the same console.                                                       *)
(*                                                                         *)
(* JavaScript values are modelled as follows.  Strings are TLA+ strings    *)
(* and `+` on strings is \o.  An argument list is a sequence of strings.   *)
(* A thrown exception is the result token "SinkError", "HandlerError" or   *)
(* "TypeError"; a normal return is "undefined" or the sink's value.        *)
(* undefined and false are both written FALSE where the code only tests    *)
(* truthiness (_temporarilyDisablePrefix).  ANSI escapes are written ESC.  *)
(***************************************************************************)
EXTENDS Integers, Sequences, FiniteSets, TLC

VARIABLES
    config,                    \* the constructor argument (this.config)
    NODE_ENV,                  \* process.env.NODE_ENV
    usePrefix,                 \* this.usePrefix
    useDefaultPrefixes,        \* this.useDefaultPrefixes
    defaultPrefixString,       \* this.defaultPrefixString
    isDev,                     \* this.isDev
    prefix,                    \* this.prefix, the resolved prefix map
    _temporarilyDisablePrefix, \* this._temporarilyDisablePrefix
    phase,                     \* where init() stands
    imported,                  \* the import() of the icon pack
    iconPack,                  \* the local iconPack of the running _initPrefix
    console,                   \* the ambient console object: member -> binding
    warnings,                  \* what the engine itself wrote to the sink
    last,                      \* the most recent call and what it did
    stack,                     \* the calls in progress, innermost last
    threw,                     \* some call in progress has thrown
    second                     \* a second engine on the same console

\* the fields the constructor sets once and for all
fixed == <<config, NODE_ENV, usePrefix, useDefaultPrefixes, defaultPrefixString,
           isDev>>

\* the calls followed step by step
nested == <<stack, threw>>

vars == <<fixed, prefix, _temporarilyDisablePrefix, phase, imported, iconPack,
          console, warnings, last, nested, second>>

----------------------------------------------------------------------------
(* Bounds of the model *)

\* the longest argument list a call is made with
MaxArgs == 2

\* the most calls in progress at once
MaxDepth == 2

----------------------------------------------------------------------------
(* Constants of the program *)

\* the logging methods of ExtendedConsole.prototype
BuiltInMethods ==
    {"log", "success", "warn", "error", "info", "check", "skip", "connect",
     "disconnect"}

ICON_PACK_MAP ==
    [log |-> "pin", success |-> "check_green", warn |-> "warn",
     error |-> "fail", info |-> "info", check |-> "success", skip |-> "skip",
     connect |-> "connect", disconnect |-> "disconnect"]

DEFAULT_PREFIXES ==
    [log |-> ">", success |-> "ESC[32mvESC[0m", warn |-> "ESC[33m!ESC[0m",
     error |-> "ESC[31mxESC[0m", info |-> "ESC[34miESC[0m",
     check |-> "ESC[34mvESC[0m", skip |-> "ESC[36m>>ESC[0m"]

\* the members the ambient console has before any engine binds to it
NativeChannels == {"log", "warn", "error", "info"}

----------------------------------------------------------------------------
(* The inputs: configurations, icon packs, argument lists *)

\* names a configuration may declare under customMethods, in key order;
\* "check" collides with a built-in
CustomOrder == <<"audit", "dbQuery", "strict", "broken", "check">>

CustomNames == {CustomOrder[i] : i \in 1..Len(CustomOrder)}

Ids == BuiltInMethods \cup CustomNames

\* what a customMethods entry is: a function that returns args.join(" "),
\* one that returns its arguments as an array, one that throws unless it is
\* given exactly one argument, or a value that is not a function
HandlerKinds == {"bare", "array", "picky"}

CustomValues == HandlerKinds \cup {"notfn"}

PartialFns(K, V) == UNION {[D -> V] : D \in SUBSET K}

\* the icon pack of the specification's provider contract, and an empty one
IconPacks ==
    { [pin |-> "PIN", check_green |-> "CHECK_GREEN", warning |-> "WARNING",
       cross |-> "CROSS", info |-> "INFO", success |-> "SUCCESS",
       skip |-> "SKIP", connect |-> "CONNECT", disconnect |-> "DISCONNECT"],
      [pin |-> "PIN"] }

NoPack == [loaded |-> FALSE, icons |-> <<>>]

ArgPool == <<"a", "b", "c", "d">>

ArgLists == {SubSeq(ArgPool, 1, n) : n \in 1..MaxArgs}

SinkBehaviours == {"returns", "throws"}

----------------------------------------------------------------------------
(* constructor *)

RECURSIVE ConstructorWarnings(_, _)
\* lines 107-130: the warnings written while the custom methods are defined
ConstructorWarnings(cfg, i) ==
    IF i > Len(CustomOrder) THEN <<>>
    ELSE LET methodName == CustomOrder[i]
             rest == ConstructorWarnings(cfg, i + 1)
         IN  IF methodName \notin DOMAIN cfg.customMethods THEN rest
             ELSE IF cfg.customMethods[methodName] # "notfn"
             THEN IF methodName \in BuiltInMethods
                  THEN <<[chan |-> "warn",
                          args |-> <<"[ExtendedConsole] Custom method '"
                                     \o methodName
                                     \o "' might overwrite an existing method.">>]>>
                       \o rest
                  ELSE rest
             ELSE <<[chan |-> "warn",
                     args |-> <<"[ExtendedConsole] Custom method '"
                                \o methodName
                                \o "' is not a function and will be ignored.">>]>>
                  \o rest

\* this._customMethodNames = Object.keys(config.customMethods || {})
_customMethodNames == {n \in CustomNames : n \in DOMAIN config.customMethods}

\* the custom wrappers the constructor defined on the instance
CustomWrappers ==
    {n \in _customMethodNames : config.customMethods[n] # "notfn"}

\* typeof this[method] === 'function'
IsFunction(method) == method \in CustomWrappers \cup BuiltInMethods

\* the record of a call: how it was made (via, m, args, and how the sink
\* behaves: sb), this.prefix[m] when it was made (pfx, "" when there was
\* none), the suppression flag before and after it (pre, post), the
\* sink invocations it made (out), the argument lists the custom handler
\* was called with (handled), and what it returned or threw (res)
NoCall ==
    [via |-> "none", m |-> "", args |-> <<>>, sb |-> "returns", pfx |-> "",
     pre |-> FALSE, post |-> FALSE, out |-> <<>>, handled |-> <<>>, res |-> "undefined"]

\* no second engine has been constructed
NoSecond ==
    [phase |-> "None", config |-> <<>>, prefix |-> <<>>, flag |-> FALSE,
     original |-> <<>>]

\* lines 90-131
Constructor(cfg, env) ==
    /\ config = cfg
    /\ NODE_ENV = env
    /\ usePrefix = (cfg.usePrefix # FALSE)
    /\ useDefaultPrefixes = (cfg.useDefaultPrefixes # FALSE)
    /\ defaultPrefixString = cfg.defaultPrefix
    /\ prefix = <<>>
    /\ isDev = IF cfg.devMode \in {"true", "false"}
               THEN cfg.devMode = "true"
               ELSE env = "development"
    /\ _temporarilyDisablePrefix = FALSE
    /\ phase = "Constructed"
    /\ imported = "none"
    /\ iconPack = NoPack
    /\ console = [m \in NativeChannels |-> "native"]
    /\ warnings = ConstructorWarnings(cfg, 1)
    /\ last = NoCall
    /\ stack = <<>>
    /\ threw = FALSE
    /\ second = NoSecond

----------------------------------------------------------------------------
(* init, _initPrefix, overrideConsoleMethods *)

\* lines 143-156: the built-in methods and the declared custom names
allMethodNames == BuiltInMethods \cup _customMethodNames

\* ResolveOne with the override tested for truthiness, not for presence
ResolveOne_truthyOverride(method, pack) ==
    LET userPrefix == config.prefix
    IN  IF method \in DOMAIN userPrefix /\ userPrefix[method] # ""
        THEN userPrefix[method]
        ELSE IF /\ pack.loaded
                /\ method \in DOMAIN ICON_PACK_MAP
                /\ ICON_PACK_MAP[method] \in DOMAIN pack.icons
                /\ pack.icons[ICON_PACK_MAP[method]] # ""
        THEN pack.icons[ICON_PACK_MAP[method]]
        ELSE IF useDefaultPrefixes /\ method \in DOMAIN DEFAULT_PREFIXES
        THEN DEFAULT_PREFIXES[method]
        ELSE defaultPrefixString

\* ResolveOne with the built-in defaults tried before the icon pack
ResolveOne_defaultsFirst(method, pack) ==
    LET userPrefix == config.prefix
    IN  IF method \in DOMAIN userPrefix
        THEN userPrefix[method]
        ELSE IF useDefaultPrefixes /\ method \in DOMAIN DEFAULT_PREFIXES
        THEN DEFAULT_PREFIXES[method]
        ELSE IF /\ pack.loaded
                /\ method \in DOMAIN ICON_PACK_MAP
                /\ ICON_PACK_MAP[method] \in DOMAIN pack.icons
                /\ pack.icons[ICON_PACK_MAP[method]] # ""
        THEN pack.icons[ICON_PACK_MAP[method]]
        ELSE defaultPrefixString

\* lines 177-196: the prefix of one method, first match wins
ResolveOne(method, pack) ==
    LET userPrefix == config.prefix
    IN  IF method \in DOMAIN userPrefix
        THEN userPrefix[method]
        ELSE IF /\ pack.loaded
                /\ method \in DOMAIN ICON_PACK_MAP
                /\ ICON_PACK_MAP[method] \in DOMAIN pack.icons
                /\ pack.icons[ICON_PACK_MAP[method]] # ""
        THEN pack.icons[ICON_PACK_MAP[method]]
        ELSE IF useDefaultPrefixes /\ method \in DOMAIN DEFAULT_PREFIXES
        THEN DEFAULT_PREFIXES[method]
        ELSE defaultPrefixString

\* lines 177-198: the loop over allMethodNames
resolvedPrefixMap(pack) == [method \in allMethodNames |-> ResolveOne(method, pack)]

\* DisabledPrefixMap without the short-circuit: the tiers are resolved
DisabledPrefixMap_resolved ==
    [method \in allMethodNames |-> ResolveOne(method, NoPack)]

\* lines 158-165: prefixes are globally disabled
DisabledPrefixMap == [method \in allMethodNames |-> ""]

\* init() runs _initPrefix up to its first suspension: to the end when no
\* icon pack is imported, to the import otherwise
InitStart ==
    /\ phase = "Constructed"
    /\ IF ~usePrefix
       THEN /\ prefix' = DisabledPrefixMap
            /\ phase' = "Resolved"
            /\ UNCHANGED imported
       ELSE IF config.useIconPack
       THEN /\ phase' = "Loading"
            /\ imported' = "pending"
            /\ UNCHANGED prefix
       ELSE /\ prefix' = resolvedPrefixMap(NoPack)
            /\ phase' = "Resolved"
            /\ UNCHANGED imported
    /\ UNCHANGED <<fixed, nested, second, _temporarilyDisablePrefix, iconPack,
                   console, warnings, last>>

\* lines 170-171 and 177-198: the import resolved
IconPackLoaded ==
    /\ imported = "pending"
    /\ \E icons \in IconPacks :
          /\ iconPack' = [loaded |-> TRUE, icons |-> icons]
          /\ prefix' = resolvedPrefixMap(iconPack')
    /\ imported' = "resolved"
    /\ phase' = "Resolved"
    /\ UNCHANGED <<fixed, nested, second, _temporarilyDisablePrefix, console,
                   warnings, last>>

\* IconPackFailed without the try/catch: init() rejects and nothing is bound
IconPackFailed_uncaught ==
    /\ imported = "pending"
    /\ imported' = "rejected"
    /\ phase' = "Rejected"
    /\ UNCHANGED <<fixed, nested, second, prefix, _temporarilyDisablePrefix,
                   iconPack, console, warnings, last>>

\* lines 172-174 and 177-198: the import rejected
IconPackFailed ==
    /\ imported = "pending"
    /\ warnings' = Append(warnings,
          [chan |-> "warn",
           args |-> <<"[ExtendedConsole] Could not load @ultimaserve/emoji-icons. Skipping icon pack.",
                      "e.message">>])
    /\ iconPack' = NoPack
    /\ prefix' = resolvedPrefixMap(NoPack)
    /\ imported' = "rejected"
    /\ phase' = "Resolved"
    /\ UNCHANGED <<fixed, nested, second, _temporarilyDisablePrefix, console,
                   last>>

RECURSIVE OverrideWarnings(_)
\* lines 299-302: a declared name that is no function on the instance
OverrideWarnings(i) ==
    IF i > Len(CustomOrder) THEN <<>>
    ELSE LET method == CustomOrder[i]
         IN  IF method \in _customMethodNames /\ ~IsFunction(method)
             THEN <<[chan |-> "warn",
                     args |-> <<"[ExtendedConsole] Method '" \o method
                                \o "' not found on instance during override.">>]>>
                  \o OverrideWarnings(i + 1)
             ELSE OverrideWarnings(i + 1)

\* Overridden without the typeof guard of line 297
Overridden_unguarded == BuiltInMethods \cup _customMethodNames

\* lines 296-298: console[method] = this[method].bind(this)
Overridden == {method \in allMethodNames : IsFunction(method)}

\* overrideConsoleMethods called without awaiting _initPrefix: it also runs
\* while the import of the icon pack is pending
overrideConsoleMethods_unawaited ==
    /\ phase \in {"Loading", "Resolved"}
    /\ console' = [member \in DOMAIN console \cup Overridden \cup {"dev", "noPrefix"} |->
                      IF member \in Overridden \cup {"dev", "noPrefix"}
                      THEN "engine"
                      ELSE console[member]]
    /\ warnings' = warnings \o OverrideWarnings(1)
    /\ phase' = "Bound"
    /\ UNCHANGED <<fixed, nested, second, prefix, _temporarilyDisablePrefix,
                   imported, iconPack, last>>

\* lines 279-324, run when the awaited _initPrefix has returned
overrideConsoleMethods ==
    /\ phase = "Resolved"
    /\ console' = [member \in DOMAIN console \cup Overridden \cup {"dev", "noPrefix"} |->
                      IF member \in Overridden \cup {"dev", "noPrefix"}
                      THEN "engine"
                      ELSE console[member]]
    /\ warnings' = warnings \o OverrideWarnings(1)
    /\ phase' = "Bound"
    /\ UNCHANGED <<fixed, nested, second, prefix, _temporarilyDisablePrefix,
                   imported, iconPack, last>>

----------------------------------------------------------------------------
(* the logging methods *)

\* lines 201-212, with this._temporarilyDisablePrefix as `disabled`
_getPrefix(method, disabled) ==
    IF disabled THEN ""
    ELSE IF method \in DOMAIN prefix /\ prefix[method] # ""
    THEN prefix[method] \o " "
    ELSE ""

\* Channel with every built-in writing to _originalConsole.log
Channel_allLog(method) == "log"

\* lines 215-258: the _originalConsole member each built-in writes to
Channel(method) ==
    IF method \in {"warn", "error", "info"} THEN method ELSE "log"

\* the sink: what a call of an _originalConsole member gives back
SinkResult(sb) == IF sb = "throws" THEN "SinkError" ELSE "sinkValue"

\* ...(prefix ? [prefix, ...args] : args)
WithPrefix(p, args) == IF p # "" THEN <<p>> \o args ELSE args

\* lines 215-258: log, success, warn, error, info, check, skip, connect,
\* disconnect
BuiltIn(method, args, disabled, sb) ==
    LET p == _getPrefix(method, disabled)
    IN  [out |-> <<[chan |-> Channel(method), args |-> WithPrefix(p, args)]>>,
         handled |-> <<>>,
         res |-> SinkResult(sb)]

RECURSIVE Join(_)
\* args.join(" ")
Join(args) ==
    IF Len(args) = 0 THEN ""
    ELSE IF Len(args) = 1 THEN args[1]
    ELSE args[1] \o " " \o Join(Tail(args))

\* config.customMethods[methodName].apply(null, args)
Handler(kind, args) ==
    IF kind = "array"
    THEN [threw |-> FALSE, isArray |-> TRUE, elems |-> args, value |-> ""]
    ELSE IF kind = "picky" /\ Len(args) # 1
    THEN [threw |-> TRUE, isArray |-> FALSE, elems |-> <<>>, value |-> ""]
    ELSE [threw |-> FALSE, isArray |-> FALSE, elems |-> <<>>, value |-> Join(args)]

\* calling undefined
NotAFunction == [out |-> <<>>, handled |-> <<>>, res |-> "TypeError"]

\* Custom without the Array.isArray test: what the handler returns is always
\* logged as one part
Custom_onePart(methodName, args, disabled, sb) ==
    LET p == _getPrefix(methodName, disabled)
        processedArgs == Handler(config.customMethods[methodName], args)
        finalArgs == IF processedArgs.isArray
                     THEN <<Join(processedArgs.elems)>>
                     ELSE <<processedArgs.value>>
    IN  IF processedArgs.threw
        THEN [out |-> <<>>, handled |-> <<args>>, res |-> "HandlerError"]
        ELSE [out |-> <<[chan |-> "log", args |-> WithPrefix(p, finalArgs)]>>,
              handled |-> <<args>>,
              res |-> SinkResult(sb)]

\* lines 114-125: the wrapper of a custom method
Custom(methodName, args, disabled, sb) ==
    LET p == _getPrefix(methodName, disabled)
        processedArgs == Handler(config.customMethods[methodName], args)
        finalArgs == IF processedArgs.isArray
                     THEN processedArgs.elems
                     ELSE <<processedArgs.value>>
    IN  IF processedArgs.threw
        THEN [out |-> <<>>, handled |-> <<args>>, res |-> "HandlerError"]
        ELSE [out |-> <<[chan |-> "log", args |-> WithPrefix(p, finalArgs)]>>,
              handled |-> <<args>>,
              res |-> SinkResult(sb)]

\* this[method](...args)
Method(method, args, disabled, sb) ==
    IF method \in CustomWrappers THEN Custom(method, args, disabled, sb)
    ELSE IF method \in BuiltInMethods THEN BuiltIn(method, args, disabled, sb)
    ELSE NotAFunction

Threw(r) == r.res \in {"SinkError", "HandlerError", "TypeError"}

----------------------------------------------------------------------------
(* dev, noPrefix and the calls *)

\* dev without the isDev test
dev_ungated(method, args, disabled, sb) ==
    IF IsFunction(method)
    THEN Method(method, args, disabled, sb)
    ELSE NotAFunction

\* lines 261-276: dev()[method](...args)
dev(method, args, disabled, sb) ==
    IF ~isDev
    THEN [out |-> <<>>, handled |-> <<>>, res |-> "undefined"]
    ELSE IF IsFunction(method)
    THEN Method(method, args, disabled, sb)
    ELSE NotAFunction

\* lines 308-323: console.noPrefix()[method](...args); `flag` is what
\* this._temporarilyDisablePrefix is when the call is over
noPrefix(method, args, sb) ==
    IF IsFunction(method)
    THEN LET previousState == _temporarilyDisablePrefix
             result == Method(method, args, TRUE, sb)
         IN  [r |-> result,
              flag |-> IF Threw(result) THEN TRUE ELSE previousState]
    ELSE [r |-> NotAFunction, flag |-> _temporarilyDisablePrefix]

\* console[member](...args) for a logging member of the ambient object
global(member, args, sb) ==
    IF member \notin DOMAIN console
    THEN NotAFunction
    ELSE IF console[member] = "engine"
    THEN Method(member, args, _temporarilyDisablePrefix, sb)
    ELSE [out |-> <<[chan |-> member, args |-> args]>>,
          handled |-> <<>>,
          res |-> SinkResult(sb)]

Record(via, m, args, sb, r, flag) ==
    [via |-> via, m |-> m, args |-> args, sb |-> sb,
     pfx |-> IF m \in DOMAIN prefix THEN prefix[m] ELSE "",
     pre |-> _temporarilyDisablePrefix, post |-> flag,
     out |-> r.out, handled |-> r.handled, res |-> r.res]

\* engine.m(...args), legal in every phase
DirectCall ==
    /\ \E m \in Ids, args \in ArgLists, sb \in SinkBehaviours :
          last' = Record("direct", m, args, sb,
                         Method(m, args, _temporarilyDisablePrefix, sb),
                         _temporarilyDisablePrefix)
    /\ UNCHANGED <<fixed, nested, second, prefix, _temporarilyDisablePrefix,
                   phase, imported, iconPack, console, warnings>>

\* console.m(...args) once the engine is bound
GlobalCall ==
    /\ phase = "Bound"
    /\ \E m \in Ids, args \in ArgLists, sb \in SinkBehaviours :
          last' = Record("global", m, args, sb, global(m, args, sb),
                         _temporarilyDisablePrefix)
    /\ UNCHANGED <<fixed, nested, second, prefix, _temporarilyDisablePrefix,
                   phase, imported, iconPack, console, warnings>>

\* engine.dev().m(...args), or console.dev().m(...args) once bound
\* (line 306: console.dev = () => this.dev())
DevCall ==
    /\ \E m \in Ids, args \in ArgLists, sb \in SinkBehaviours :
          last' = Record("dev", m, args, sb,
                         dev(m, args, _temporarilyDisablePrefix, sb),
                         _temporarilyDisablePrefix)
    /\ UNCHANGED <<fixed, nested, second, prefix, _temporarilyDisablePrefix,
                   phase, imported, iconPack, console, warnings>>

\* console.noPrefix().m(...args) once the engine is bound
NoPrefixCall ==
    /\ "noPrefix" \in DOMAIN console
    /\ \E m \in Ids, args \in ArgLists, sb \in SinkBehaviours :
          LET c == noPrefix(m, args, sb)
          IN  /\ last' = Record("noPrefix", m, args, sb, c.r, c.flag)
              /\ _temporarilyDisablePrefix' = c.flag
    /\ UNCHANGED <<fixed, nested, second, prefix, phase, imported, iconPack,
                   console, warnings>>

\* engine.dev().noPrefix().m(...args), or console.dev().noPrefix().m(...args):
\* lines 261-276 give the no-op function for noPrefix when isDev is false,
\* whose result undefined has no member m, and target["noPrefix"] otherwise,
\* which is called; the class defines no member noPrefix
devNoPrefix(method, args, disabled, sb) ==
    IF isDev /\ IsFunction("noPrefix")
    THEN LET inner == Method("noPrefix", <<>>, disabled, sb)
         IN  [out |-> inner.out, handled |-> inner.handled, res |-> "TypeError"]
    ELSE NotAFunction

\* console.noPrefix().dev().m(...args): lines 312-317 wrap dev, so the flag
\* is set, dev() returns its surface, the flag is put back to previousState,
\* and only then m is looked up on that surface and called
noPrefixDev(method, args, sb) ==
    LET previousState == _temporarilyDisablePrefix
    IN  [r |-> dev(method, args, previousState, sb), flag |-> previousState]

\* dev().noPrefix().m(...args), on the engine or on the bound console
DevNoPrefixCall ==
    /\ \E m \in Ids, args \in ArgLists, sb \in SinkBehaviours :
          last' = Record("dev.noPrefix", m, args, sb,
                         devNoPrefix(m, args, _temporarilyDisablePrefix, sb),
                         _temporarilyDisablePrefix)
    /\ UNCHANGED <<fixed, nested, second, prefix, _temporarilyDisablePrefix,
                   phase, imported, iconPack, console, warnings>>

\* console.noPrefix().dev().m(...args) once the engine is bound
NoPrefixDevCall ==
    /\ "noPrefix" \in DOMAIN console
    /\ \E m \in Ids, args \in ArgLists, sb \in SinkBehaviours :
          LET c == noPrefixDev(m, args, sb)
          IN  /\ last' = Record("noPrefix.dev", m, args, sb, c.r, c.flag)
              /\ _temporarilyDisablePrefix' = c.flag
    /\ UNCHANGED <<fixed, nested, second, prefix, phase, imported, iconPack,
                   console, warnings>>

----------------------------------------------------------------------------
(* Calls of custom methods followed step by step: the handler of a custom  *)
(* method is code of the program that uses the engine, and may itself call *)
(* console.noPrefix().m(...) and console.m(...) before it returns          *)

\* the custom methods whose calls are followed step by step, and the
\* built-in methods their handlers call
NestedCustoms == {"audit", "strict"}

InnerBuiltIns == {"log", "warn"}

\* the call in progress whose handler is running
Top == stack[Len(stack)]

\* line 316 when the wrapped call has returned: what the flag is put back to
Restored_false(frame) == FALSE

\* line 316: target._temporarilyDisablePrefix = previousState
Restored(frame) == frame.previousState

\* console.noPrefix().m(...args) or console.m(...args) for a custom method
\* m, up to the call of its handler: lines 313-314 for noPrefix, then
\* line 115, where the wrapper reads its prefix
NestedEnter ==
    /\ "noPrefix" \in DOMAIN console
    /\ Len(stack) < MaxDepth
    /\ \E via \in {"noPrefix", "global"}, m \in NestedCustoms \cap CustomWrappers,
          args \in ArgLists :
          LET previousState == _temporarilyDisablePrefix
              disabled == IF via = "noPrefix" THEN TRUE ELSE previousState
          IN  /\ stack' = Append(stack, [via |-> via, m |-> m, args |-> args,
                                         previousState |-> previousState,
                                         disabled |-> disabled])
              /\ _temporarilyDisablePrefix' = disabled
    /\ UNCHANGED <<fixed, prefix, phase, imported, iconPack, console, warnings,
                   last, threw, second>>

\* the running handler calls a built-in through console.noPrefix() or
\* through console, and the call returns
NestedInner ==
    /\ stack # <<>>
    /\ \E via \in {"noPrefix", "global"}, m \in InnerBuiltIns \ CustomWrappers,
          args \in ArgLists :
          LET c == IF via = "noPrefix"
                   THEN noPrefix(m, args, "returns")
                   ELSE [r |-> global(m, args, "returns"),
                         flag |-> _temporarilyDisablePrefix]
          IN  /\ last' = Record(via, m, args, "returns", c.r, c.flag)
              /\ _temporarilyDisablePrefix' = c.flag
    /\ UNCHANGED <<fixed, prefix, phase, imported, iconPack, console, warnings,
                   nested, second>>

\* the running handler returns: lines 120-124 log what it returned with the
\* prefix read at line 115, and for a call through noPrefix line 316 puts
\* the flag back
NestedReturn ==
    /\ stack # <<>>
    /\ ~Handler(config.customMethods[Top.m], Top.args).threw
    /\ LET flag == IF Top.via = "noPrefix"
                   THEN Restored(Top)
                   ELSE _temporarilyDisablePrefix
       IN  /\ last' = [Record(Top.via, Top.m, Top.args, "returns",
                              Custom(Top.m, Top.args, Top.disabled, "returns"),
                              flag)
                         EXCEPT !.pre = Top.previousState]
           /\ _temporarilyDisablePrefix' = flag
    /\ stack' = SubSeq(stack, 1, Len(stack) - 1)
    /\ UNCHANGED <<fixed, prefix, phase, imported, iconPack, console, warnings,
                   threw, second>>

\* the running handler throws: the exception leaves every call in progress
\* (no wrapper catches it, so line 316 is not reached in any of them) and is
\* caught by the program
NestedThrow ==
    /\ stack # <<>>
    /\ Handler(config.customMethods[Top.m], Top.args).threw
    /\ last' = [Record(Top.via, Top.m, Top.args, "returns",
                       Custom(Top.m, Top.args, Top.disabled, "returns"),
                       _temporarilyDisablePrefix)
                  EXCEPT !.pre = Top.previousState]
    /\ stack' = <<>>
    /\ threw' = TRUE
    /\ UNCHANGED <<fixed, prefix, _temporarilyDisablePrefix, phase, imported,
                   iconPack, console, warnings, second>>

----------------------------------------------------------------------------
(* A second engine on the same console.  It is an instance of the same     *)
(* class; its fields are those of the record `second`.  Its configurations *)
(* declare no custom methods and no icon pack, so its constructor writes   *)
(* no warning and its _initPrefix runs to its end without an import.       *)

SecondConfigs ==
    { [usePrefix |-> u, useDefaultPrefixes |-> TRUE, defaultPrefix |-> "",
       prefix |-> ov, useIconPack |-> FALSE, devMode |-> "unset",
       customMethods |-> <<>>] :
      u \in BOOLEAN, ov \in {<<>>, [log |-> "[2]"]} }

\* line 91, this._originalConsole = { ...console }: the members of console
\* as they are bound when the second engine is constructed
ConstructSecond ==
    /\ second.phase = "None"
    /\ \E cfg \in SecondConfigs :
          second' = [phase |-> "Constructed", config |-> cfg, prefix |-> <<>>,
                     flag |-> FALSE, original |-> console]
    /\ UNCHANGED <<fixed, nested, prefix, _temporarilyDisablePrefix, phase,
                   imported, iconPack, console, warnings, last>>

\* lines 158-198 for the second engine, whose iconPack stays null
secondPrefixMap(cfg) ==
    [method \in BuiltInMethods \cup DOMAIN cfg.customMethods |->
        IF cfg.usePrefix = FALSE THEN ""
        ELSE IF method \in DOMAIN cfg.prefix THEN cfg.prefix[method]
        ELSE IF cfg.useDefaultPrefixes # FALSE /\ method \in DOMAIN DEFAULT_PREFIXES
        THEN DEFAULT_PREFIXES[method]
        ELSE cfg.defaultPrefix]

\* the second engine's init() up to the await of line 134
InitSecond ==
    /\ second.phase = "Constructed"
    /\ second' = [second EXCEPT !.prefix = secondPrefixMap(second.config),
                                !.phase = "Resolved"]
    /\ UNCHANGED <<fixed, nested, prefix, _temporarilyDisablePrefix, phase,
                   imported, iconPack, console, warnings, last>>

\* lines 279-324 for the second engine: its built-ins, dev and noPrefix
\* replace what console had under those names
BindSecond ==
    /\ second.phase = "Resolved"
    /\ console' = [member \in DOMAIN console \cup BuiltInMethods
                                  \cup {"dev", "noPrefix"} |->
                      IF member \in BuiltInMethods \cup {"dev", "noPrefix"}
                      THEN "second"
                      ELSE console[member]]
    /\ second' = [second EXCEPT !.phase = "Bound"]
    /\ UNCHANGED <<fixed, nested, prefix, _temporarilyDisablePrefix, phase,
                   imported, iconPack, warnings, last>>

\* lines 201-212 for the second engine
secondGetPrefix(method, disabled) ==
    IF disabled THEN ""
    ELSE IF method \in DOMAIN second.prefix /\ second.prefix[method] # ""
    THEN second.prefix[method] \o " "
    ELSE ""

\* this._originalConsole[chan](...args) of the second engine: the member
\* copied at line 91, the native channel or the first engine's bound method
secondOriginal(chan, args, sb) ==
    IF second.original[chan] = "engine"
    THEN Method(chan, args, _temporarilyDisablePrefix, sb)
    ELSE [out |-> <<[chan |-> chan, args |-> args]>>,
          handled |-> <<>>,
          res |-> SinkResult(sb)]

\* lines 215-258 for the second engine
secondBuiltIn(method, args, disabled, sb) ==
    secondOriginal(Channel(method),
                   WithPrefix(secondGetPrefix(method, disabled), args), sb)

\* lines 308-323 for the second engine
secondNoPrefix(method, args, sb) ==
    IF method \in BuiltInMethods
    THEN LET previousState == second.flag
             result == secondBuiltIn(method, args, TRUE, sb)
         IN  [r |-> result,
              flag |-> IF Threw(result) THEN TRUE ELSE previousState]
    ELSE [r |-> NotAFunction, flag |-> second.flag]

\* console.m(...args) with whatever engine m is bound to
GlobalCallShared ==
    /\ "noPrefix" \in DOMAIN console
    /\ \E m \in Ids, args \in ArgLists :
          last' = Record("global", m, args, "returns",
                         IF m \in DOMAIN console /\ console[m] = "second"
                         THEN secondBuiltIn(m, args, second.flag, "returns")
                         ELSE global(m, args, "returns"),
                         _temporarilyDisablePrefix)
    /\ UNCHANGED <<fixed, nested, second, prefix, _temporarilyDisablePrefix,
                   phase, imported, iconPack, console, warnings>>

\* console.noPrefix().m(...args) with the engine that bound noPrefix last
NoPrefixCallShared ==
    /\ "noPrefix" \in DOMAIN console
    /\ \E m \in Ids, args \in ArgLists :
          IF console["noPrefix"] = "second"
          THEN LET c == secondNoPrefix(m, args, "returns")
               IN  /\ last' = Record("noPrefix", m, args, "returns", c.r,
                                     _temporarilyDisablePrefix)
                   /\ second' = [second EXCEPT !.flag = c.flag]
                   /\ UNCHANGED _temporarilyDisablePrefix
          ELSE LET c == noPrefix(m, args, "returns")
               IN  /\ last' = Record("noPrefix", m, args, "returns", c.r, c.flag)
                   /\ _temporarilyDisablePrefix' = c.flag
                   /\ UNCHANGED second
    /\ UNCHANGED <<fixed, nested, prefix, phase, imported, iconPack, console,
                   warnings>>

----------------------------------------------------------------------------
(* The engine with its calls *)

\* the custom methods of the configurations the calls are checked on
DispatchCustomMethods ==
    [audit |-> "bare", dbQuery |-> "array", strict |-> "picky",
     broken |-> "notfn", check |-> "array"]

\* the configurations the calls are checked on, each with its NODE_ENV
DispatchConfigs ==
    { <<[usePrefix |-> c[1], useDefaultPrefixes |-> TRUE, defaultPrefix |-> c[5],
         prefix |-> [audit |-> "[AUDIT]", success |-> ""],
         useIconPack |-> c[2], devMode |-> c[3],
         customMethods |-> DispatchCustomMethods], c[4]>> :
      c \in { <<TRUE, FALSE, "unset", "development", "">>,
              <<TRUE, FALSE, "unset", "production", "APP:">>,
              <<TRUE, TRUE, "false", "development", "">>,
              <<TRUE, TRUE, "true", "production", "APP:">>,
              <<FALSE, TRUE, "true", "production", "APP:">>,
              <<FALSE, FALSE, "false", "development", "">> } }

Init == \E c \in DispatchConfigs : Constructor(c[1], c[2])

Next ==
    \/ InitStart
    \/ IconPackLoaded
    \/ IconPackFailed
    \/ overrideConsoleMethods
    \/ DirectCall
    \/ GlobalCall
    \/ DevCall
    \/ NoPrefixCall

Spec == Init /\ [][Next]_vars

----------------------------------------------------------------------------
(* The engine's initialization alone, over a wider set of configurations *)

ResolveConfigs ==
    [usePrefix : BOOLEAN, useDefaultPrefixes : BOOLEAN,
     defaultPrefix : {"", "APP:"},
     prefix : PartialFns({"log", "connect", "audit"}, {"", "[X]"}),
     useIconPack : BOOLEAN, devMode : {"unset"},
     customMethods : PartialFns({"audit", "check"}, {"bare", "notfn"})]

InitResolve == \E cfg \in ResolveConfigs : Constructor(cfg, "production")

NextResolve ==
    \/ InitStart
    \/ IconPackLoaded
    \/ IconPackFailed
    \/ overrideConsoleMethods

SpecResolve == InitResolve /\ [][NextResolve]_vars

----------------------------------------------------------------------------
(* Properties of the resolution (checked under SpecResolve) *)

\* _initPrefix has assigned this.prefix
Initialized == phase \in {"Resolved", "Bound"}

\* C4: with global prefixing enabled, a registered method that has an entry
\* in the per-method override map resolves to that entry verbatim, whatever
\* the icon pack, useDefaultPrefixes and defaultPrefix are; an explicit
\* empty string is final.
C4_OverridePrecedence ==
    (Initialized /\ config.usePrefix) =>
        \A m \in BuiltInMethods \cup DOMAIN config.customMethods :
            m \in DOMAIN config.prefix =>
                m \in DOMAIN prefix /\ prefix[m] = config.prefix[m]

\* an explicit empty override of log that stood against a loaded icon pack
\* with a pin, the built-in default ">" and a non-empty defaultPrefix
C4_Witness ==
    /\ phase = "Bound"
    /\ config.usePrefix /\ config.useDefaultPrefixes
    /\ config.defaultPrefix = "APP:"
    /\ imported = "resolved" /\ "pin" \in DOMAIN iconPack.icons
    /\ "log" \in DOMAIN config.prefix /\ config.prefix["log"] = ""
    /\ "connect" \in DOMAIN config.prefix /\ config.prefix["connect"] = "[X]"
    /\ prefix["log"] = "" /\ prefix["connect"] = "[X]"

\* the icon pack was requested, loaded, and has a value under m's icon name
ProviderExposes(m) ==
    /\ config.useIconPack
    /\ imported = "resolved"
    /\ m \in DOMAIN ICON_PACK_MAP
    /\ ICON_PACK_MAP[m] \in DOMAIN iconPack.icons

\* the tiers below the override, in the order of the specification
LowerTier(m) ==
    IF ProviderExposes(m) THEN iconPack.icons[ICON_PACK_MAP[m]]
    ELSE IF config.useDefaultPrefixes /\ m \in DOMAIN DEFAULT_PREFIXES
    THEN DEFAULT_PREFIXES[m]
    ELSE config.defaultPrefix

IsLoadWarning(w) ==
    w.args[1] = "[ExtendedConsole] Could not load @ultimaserve/emoji-icons. Skipping icon pack."

\* what m resolves to when no icon pack is requested
WithoutIconPack(m) ==
    IF m \in DOMAIN config.prefix THEN config.prefix[m]
    ELSE IF config.useDefaultPrefixes /\ m \in DOMAIN DEFAULT_PREFIXES
    THEN DEFAULT_PREFIXES[m]
    ELSE config.defaultPrefix

\* C9: when the import of the icon pack rejects, exactly one warning about
\* it is written, on the warning channel; init() goes on to bind the global
\* surface; and every method resolves as if no icon pack had been requested.
C9_IconLoadFailure ==
    imported = "rejected" =>
        /\ config.useIconPack
        /\ Cardinality({i \in DOMAIN warnings : IsLoadWarning(warnings[i])}) = 1
        /\ \A i \in DOMAIN warnings :
              IsLoadWarning(warnings[i]) => warnings[i].chan = "warn"
        /\ phase = "Bound" \/ (phase = "Resolved" /\ ENABLED overrideConsoleMethods)
        /\ phase = "Bound" =>
              \A m \in BuiltInMethods :
                  m \in DOMAIN console /\ console[m] = "engine"
        /\ DOMAIN prefix = BuiltInMethods \cup DOMAIN config.customMethods
        /\ \A m \in DOMAIN prefix : prefix[m] = WithoutIconPack(m)

\* the import rejected and the engine is bound, log on its built-in default
C9_Witness ==
    /\ imported = "rejected"
    /\ phase = "Bound"
    /\ console["log"] = "engine"
    /\ "log" \notin DOMAIN config.prefix
    /\ config.useDefaultPrefixes
    /\ prefix["log"] = ">"

\* the names declared under customMethods whose value is not a function
NonCallable ==
    {n \in DOMAIN config.customMethods : config.customMethods[n] = "notfn"}

\* the warning of line 127 was written for n
WarnedNotAFunction(n) ==
    \E i \in DOMAIN warnings :
        /\ warnings[i].chan = "warn"
        /\ warnings[i].args =
              <<"[ExtendedConsole] Custom method '" \o n
                \o "' is not a function and will be ignored.">>

\* init() is not stuck: once _initPrefix returned, the binding can run
InitCompletes == phase = "Resolved" => ENABLED overrideConsoleMethods

----------------------------------------------------------------------------
(* The engine with the calls that chain dev() and noPrefix() *)

NextChain ==
    \/ InitStart
    \/ IconPackLoaded
    \/ IconPackFailed
    \/ overrideConsoleMethods
    \/ DevNoPrefixCall
    \/ NoPrefixDevCall

SpecChain == Init /\ [][NextChain]_vars

----------------------------------------------------------------------------
(* The engine with calls that nest *)

\* the configuration the nested calls are checked on: the one with
\* prefixes, a defaultPrefix and no icon pack
InitNested ==
    \E c \in DispatchConfigs :
        /\ c[1].usePrefix /\ ~c[1].useIconPack /\ c[1].defaultPrefix # ""
        /\ Constructor(c[1], c[2])

NextNested ==
    \/ InitStart
    \/ overrideConsoleMethods
    \/ NestedEnter
    \/ NestedInner
    \/ NestedReturn
    \/ NestedThrow

SpecNested == InitNested /\ [][NextNested]_vars

----------------------------------------------------------------------------
(* Two engines on one console *)

\* the configurations of the first engine when a second one follows
SharedConfigs ==
    { [usePrefix |-> TRUE, useDefaultPrefixes |-> TRUE, defaultPrefix |-> d,
       prefix |-> [audit |-> "[AUDIT]"], useIconPack |-> FALSE,
       devMode |-> "unset", customMethods |-> [audit |-> "bare"]] :
      d \in {"", "APP:"} }

InitShared == \E cfg \in SharedConfigs : Constructor(cfg, "production")

NextShared ==
    \/ InitStart
    \/ overrideConsoleMethods
    \/ ConstructSecond
    \/ InitSecond
    \/ BindSecond
    \/ GlobalCallShared
    \/ NoPrefixCallShared

SpecShared == InitShared /\ [][NextShared]_vars

----------------------------------------------------------------------------
(* Properties of the calls (checked under Spec) *)

\* the call reached a method of the engine: it was not made through the
\* inert surface that dev() gives when isDev is false
Live(c) == c.via # "none" /\ ~(c.via = "dev" /\ ~isDev)

\* the parts a call logs: its arguments, or, for a custom method, what the
\* handler returned, an array part by part and anything else as one part
LoggedParts(c) ==
    IF c.m \in CustomWrappers
    THEN IF config.customMethods[c.m] = "array" THEN c.args
         ELSE <<Join(c.args)>>
    ELSE c.args

\* the prefix argument a call made outside any suppression carries
NormalPrefix(c) == IF c.pfx # "" THEN <<c.pfx \o " ">> ELSE <<>>

\* C1: when a registered method is called through noPrefix() and then
\* again through the normal surface, the first call's sink invocation
\* carries no prefix argument and the second carries the normally resolved
\* prefix of the method.
C1_SuppressionIsolation ==
    [][(/\ last.via = "noPrefix"
        /\ last'.via = "global"
        /\ last'.m = last.m
        /\ IsFunction(last.m))
       => /\ last.out # <<>> => last.out[1].args = LoggedParts(last)
          /\ last'.out # <<>> =>
                last'.out[1].args = NormalPrefix(last') \o LoggedParts(last')]_vars

\* C2: a call through noPrefix() leaves the suppression flag as it found
\* it on every exit path, also when the inner dispatch throws.
C2_RestoredOnEveryExit ==
    last.via = "noPrefix" =>
        /\ last.post = last.pre
        /\ _temporarilyDisablePrefix = last.pre

\* the calls made without dev()
Ungated(c) == c.via \in {"direct", "global"}

\* the same method, arguments and sink behaviour, in the same state of the
\* engine
SameCall(c, d) ==
    /\ c.m = d.m /\ c.args = d.args /\ c.sb = d.sb
    /\ c.pre = d.pre /\ c.pfx = d.pfx

SameEffect(c, d) ==
    /\ c.out = d.out /\ c.res = d.res
    /\ c.handled = d.handled /\ c.post = d.post

\* C3: with devMode false a call through dev() makes no sink invocation,
\* calls no handler, returns undefined and changes no state; with devMode
\* true it does exactly what the same call without dev() does: the same
\* sink invocation (channel and arguments) and the same result.
C3_DevGating ==
    [][/\ (last'.via = "dev" /\ config.devMode = "false") =>
              /\ last'.out = <<>> /\ last'.handled = <<>>
              /\ last'.res = "undefined"
              /\ last'.post = last'.pre
       /\ (last' # last /\ last'.via = "dev" /\ config.devMode = "false") =>
              UNCHANGED <<fixed, nested, second, prefix,
                          _temporarilyDisablePrefix, phase, imported,
                          iconPack, console, warnings>>
       /\ (/\ config.devMode = "true"
           /\ SameCall(last, last')
           /\ \/ last.via = "dev" /\ Ungated(last')
              \/ Ungated(last) /\ last'.via = "dev")
          => SameEffect(last, last')]_vars

\* devMode is true and info was called through dev(): it reached the
\* informational channel with its prefix
C3_Witness ==
    /\ config.devMode = "true"
    /\ last.via = "dev" /\ last.m = "info"
    /\ last.out = <<[chan |-> "info",
                     args |-> <<DEFAULT_PREFIXES["info"] \o " ">> \o last.args]>>

\* C5: with usePrefix false every registered method, built-in or custom,
\* resolves to the empty string once initialized, whatever the overrides,
\* the icon pack, the defaults and defaultPrefix are, and every dispatch
\* passes its parts to the sink with no prefix argument.
C5_GlobalDisable ==
    (config.usePrefix = FALSE) =>
        /\ Initialized =>
              /\ DOMAIN prefix = BuiltInMethods \cup DOMAIN config.customMethods
              /\ \A m \in DOMAIN prefix : prefix[m] = ""
        /\ (Live(last) /\ last.out # <<>>) =>
              /\ Len(last.out) = 1
              /\ last.out[1].args = LoggedParts(last)

\* usePrefix is false, audit has the override "[AUDIT]" and defaultPrefix
\* is set, and a call of audit on the bound surface reached the sink bare
C5_Witness ==
    /\ config.usePrefix = FALSE
    /\ phase = "Bound"
    /\ config.prefix["audit"] = "[AUDIT]" /\ config.defaultPrefix = "APP:"
    /\ prefix["audit"] = "" /\ prefix["log"] = "" /\ prefix["connect"] = ""
    /\ last.via = "global" /\ last.m = "audit"
    /\ last.out = <<[chan |-> "log", args |-> <<Join(last.args)>>]>>

\* the prefix in force for a call: "" while suppressed, else the resolved one
EffectivePrefix(c) == IF c.pre \/ c.via = "noPrefix" THEN "" ELSE c.pfx

\* C6: a call of a built-in method invokes one sink channel once (warn,
\* error and info their own, every other built-in the plain one) with the
\* prefix and one space as first argument when the effective prefix is not
\* empty and with the arguments alone otherwise, and returns what the sink
\* returns.
C6_BuiltInDispatch ==
    (Live(last) /\ last.m \in BuiltInMethods \ CustomWrappers) =>
        /\ Len(last.out) = 1
        /\ last.out[1].chan =
              CASE last.m = "warn" -> "warn"
                [] last.m = "error" -> "error"
                [] last.m = "info" -> "info"
                [] OTHER -> "log"
        /\ last.out[1].args =
              IF EffectivePrefix(last) # ""
              THEN <<EffectivePrefix(last) \o " ">> \o last.args
              ELSE last.args
        /\ last.sb = "returns" => last.res = "sinkValue"
        /\ last.sb = "throws" => last.res = "SinkError"
        /\ last.handled = <<>>

\* warn called on the bound surface with two arguments
C6_Witness ==
    /\ last.via = "global" /\ last.m = "warn" /\ ~last.pre
    /\ last.out = <<[chan |-> "warn",
                     args |-> <<"ESC[33m!ESC[0m ", "a", "b">>]>>
    /\ last.res = "sinkValue"

\* C8: a call of a custom method calls its handler once with the call's
\* arguments and, when the handler returns, invokes the plain channel once:
\* with each element as a part, in order, when it returned an array, with
\* the value as the one part otherwise, after the prefix and a space when
\* the effective prefix is not empty.
C8_CustomNormalization ==
    (Live(last) /\ last.m \in CustomWrappers) =>
        /\ last.handled = <<last.args>>
        /\ last.res # "HandlerError" =>
              /\ Len(last.out) = 1
              /\ last.out[1].chan = "log"
              /\ last.out[1].args =
                    (IF EffectivePrefix(last) # ""
                     THEN <<EffectivePrefix(last) \o " ">>
                     ELSE <<>>)
                    \o (IF config.customMethods[last.m] = "array"
                        THEN last.args
                        ELSE <<Join(last.args)>>)
              /\ last.sb = "returns" => last.res = "sinkValue"

\* dbQuery, whose handler returns an array, called with two arguments
C8_Witness ==
    /\ last.via = "global" /\ last.m = "dbQuery"
    /\ config.customMethods["dbQuery"] = "array"
    /\ last.handled = <<<<"a", "b">>>>
    /\ last.out = <<[chan |-> "log", args |-> <<"APP: ", "a", "b">>]>>

----------------------------------------------------------------------------
(* Properties of the chained calls (checked under SpecChain) *)

\* the call was made through dev() and noPrefix() chained, in either order
Chained(c) == c.via \in {"dev.noPrefix", "noPrefix.dev"}

\* C11: with devMode true, a call of a registered method through dev() and
\* noPrefix() chained together, in either order, completes without error
\* and reaches the sink exactly once with no prefix argument.
C11_ChainedSuppression ==
    (/\ config.devMode = "true"
     /\ Chained(last)
     /\ IsFunction(last.m)
     /\ last.sb = "returns"
     /\ ~Handler(IF last.m \in CustomWrappers
                 THEN config.customMethods[last.m] ELSE "bare",
                 last.args).threw)
    => /\ ~Threw(last)
       /\ Len(last.out) = 1
       /\ last.out[1].args = LoggedParts(last)

----------------------------------------------------------------------------
(* Properties of the lifecycle (checked under Spec) *)

\* the global surface has been bound by the engine
SurfaceBound == "noPrefix" \in DOMAIN console /\ console["noPrefix"] = "engine"

\* the registered identifiers: the built-ins and every declared custom name
Registered == BuiltInMethods \cup DOMAIN config.customMethods

\* C12: whenever the global surface is bound, the icon load is not pending
\* and the prefix map has an entry, a string, for every registered
\* identifier and for nothing else; the step that binds the surface is
\* taken with the load over and the map complete; and in every state,
\* whatever calls were made in between, the map is either still empty or
\* complete, never partially filled.
C12_Lifecycle ==
    /\ [](/\ SurfaceBound =>
                /\ imported # "pending"
                /\ DOMAIN prefix = Registered
                /\ \A m \in Registered : prefix[m] \in STRING
          /\ prefix = <<>> \/ DOMAIN prefix = Registered)
    /\ [][(~SurfaceBound /\ SurfaceBound') =>
              /\ imported # "pending"
              /\ DOMAIN prefix = Registered
              /\ prefix' = prefix]_vars

\* the surface was bound after the icon pack had loaded, the map has its
\* thirteen entries, and a call was made on the engine
C12_Witness ==
    /\ SurfaceBound
    /\ phase = "Bound" /\ imported = "resolved"
    /\ Cardinality(DOMAIN prefix) = 13
    /\ last.via = "direct"

----------------------------------------------------------------------------
(* Properties of the nested calls (checked under SpecNested) *)

\* a call through noPrefix() is in progress
Suppressing == \E i \in 1..Len(stack) : stack[i].via = "noPrefix"

\* C13: as long as every call has returned normally, the suppression flag
\* is true exactly while a call through noPrefix() is in progress, also
\* after the calls made inside it have returned; a call made through
\* noPrefix() or inside such a call logs its parts without a prefix and one
\* made outside logs them after its normal prefix; and when the outermost
\* call returns the flag is what it was before that call.
C13_NestedSuppression ==
    /\ [](~threw =>
            /\ _temporarilyDisablePrefix = Suppressing
            /\ (last.via \in {"noPrefix", "global"} /\ last.out # <<>>) =>
                  last.out[1].args =
                      (IF last.via = "noPrefix" \/ last.pre
                       THEN <<>> ELSE NormalPrefix(last))
                      \o LoggedParts(last))
    /\ [][(~threw' /\ Len(stack) = 1 /\ stack' = <<>>) =>
              _temporarilyDisablePrefix' = stack[1].previousState]_vars

\* a custom method called through noPrefix() inside the handler of another
\* call through noPrefix() has returned, the outer call is still in
\* progress, and the flag is true
C13_Witness ==
    /\ ~threw
    /\ Len(stack) = 1 /\ stack[1].via = "noPrefix"
    /\ last.via = "noPrefix" /\ last.m \in CustomWrappers /\ last.pre
    /\ last.out = <<[chan |-> "log", args |-> <<Join(last.args)>>]>>
    /\ _temporarilyDisablePrefix

----------------------------------------------------------------------------
(* Properties of two engines on one console (checked under SpecShared) *)

\* the prefix map of the engine that bound the surface last
RecentPrefix == IF console["noPrefix"] = "second" THEN second.prefix ELSE prefix

\* the methods that engine registers
RecentMethods ==
    IF console["noPrefix"] = "second"
    THEN BuiltInMethods
    ELSE BuiltInMethods \cup CustomWrappers

\* C14: whatever engines were constructed and initialized on the console,
\* a call of a method of the engine bound last, made through the global
\* surface, reaches the sink exactly once: with that engine's prefix for the
\* method as the only prefix argument when it is not empty, and with the
\* parts alone when it is empty or the call is made through noPrefix().
C14_Rebinding ==
    [][(/\ last' # last
        /\ last'.via \in {"global", "noPrefix"}
        /\ last'.m \in RecentMethods)
       => /\ Len(last'.out) = 1
          /\ last'.out[1].args =
                (IF last'.via = "noPrefix" \/ RecentPrefix[last'.m] = ""
                 THEN <<>>
                 ELSE <<RecentPrefix[last'.m] \o " ">>)
                \o LoggedParts(last')]_vars

====
